---- MODULE Spec2Model ----
(***************************************************************************)
(* Verification model of tuanitpro/binance-auto-buy-sell.                  *)
(*                                                                         *)
(*   utils/dca.go      CalculateDCA                                        *)
(*   utils/predict.go  SMA, EMA, CalculateRSI, CalculateStochRSI, MACD,    *)
(*                     BollingerBands, PredictNextPrice                    *)
(*   main.go           autoTrade with checkSignal, the executions of       *)
(*                     cronJob                                             *)
(*   binance/account.go  computeAverageAveragePrice, GetAccountBalances    *)
(*                                                                         *)
(* Numbers.  Go's float64 is modelled by two exact representations:        *)
(*   - ratios, quantities and everything in CalculateDCA are extended      *)
(*     rationals <<n, d>> in lowest terms with d > 0; d = 0 encodes the    *)
(*     IEEE special values (<<1,0>> = +Inf, <<-1,0>> = -Inf, <<0,0>> =     *)
(*     NaN), so a division by zero yields what Go yields and never stops   *)
(*     the program;                                                        *)
(*   - prices and price averages in predict.go (closes, SMA, EMA, MACD)    *)
(*     are fixed-point integers counting 1/Scale units, each division      *)
(*     rounding to the nearest unit; the Bollinger bands are rationals     *)
(*     whose square root is taken to 1/SqrtScale.                          *)
(* Rounding error of the binary format itself is modelled only for         *)
(* account.go (operators Fl, FAdd, FSub, FDiv, FMulAdd), where the sign of *)
(* a difference depends on it.                                             *)
(***************************************************************************)
EXTENDS Integers, Sequences, FiniteSets, TLC

\* A local that has not been assigned yet.
Nil == <<>>

(***************************************************************************)
(* Extended rational arithmetic                                            *)
(***************************************************************************)
Abs(x) == IF x < 0 THEN -x ELSE x

Sgn(x) == IF x < 0 THEN -1 ELSE IF x > 0 THEN 1 ELSE 0

RECURSIVE GCD(_, _)
GCD(a, b) == IF b = 0 THEN a ELSE GCD(b, a % b)

Norm(n, d) ==
    LET g == GCD(Abs(n), d)
    IN  <<n \div g, d \div g>>

RInt(i) == <<i, 1>>

NaN == <<0, 0>>

PosInf == <<1, 0>>

NegInf == <<-1, 0>>

IsNaN(a) == a = NaN

IsFinite(a) == a[2] # 0

RNeg(a) == <<-a[1], a[2]>>

RAdd(a, b) ==
    IF IsNaN(a) \/ IsNaN(b) THEN NaN
    ELSE IF ~IsFinite(a) /\ ~IsFinite(b) THEN (IF a = b THEN a ELSE NaN)
    ELSE IF ~IsFinite(a) THEN a
    ELSE IF ~IsFinite(b) THEN b
    ELSE LET g == GCD(a[2], b[2])
             l == (a[2] \div g) * b[2]
         IN  Norm(a[1] * (l \div a[2]) + b[1] * (l \div b[2]), l)

RSub(a, b) == RAdd(a, RNeg(b))

RMul(a, b) ==
    IF IsNaN(a) \/ IsNaN(b) THEN NaN
    ELSE IF ~IsFinite(a) \/ ~IsFinite(b) THEN <<Sgn(a[1]) * Sgn(b[1]), 0>>
    ELSE LET g1 == GCD(Abs(a[1]), b[2])
             g2 == GCD(Abs(b[1]), a[2])
         IN  Norm((a[1] \div g1) * (b[1] \div g2), (a[2] \div g2) * (b[2] \div g1))

\* x / y as Go computes it: a zero divisor gives +Inf, -Inf or NaN.
RDiv(a, b) ==
    IF IsNaN(a) \/ IsNaN(b) THEN NaN
    ELSE IF ~IsFinite(b) THEN (IF IsFinite(a) THEN RInt(0) ELSE NaN)
    ELSE IF b[1] = 0 THEN <<Sgn(a[1]), 0>>
    ELSE RMul(a, <<Sgn(b[1]) * b[2], Abs(b[1])>>)

\* Comparisons; every comparison with NaN is false.
RLt(a, b) ==
    IF IsNaN(a) \/ IsNaN(b) THEN FALSE
    ELSE IF IsFinite(a) /\ IsFinite(b)
         THEN LET g == GCD(a[2], b[2])
              IN  a[1] * (b[2] \div g) < b[1] * (a[2] \div g)
    ELSE IF ~IsFinite(a) /\ ~IsFinite(b) THEN a[1] < b[1]
    ELSE IF ~IsFinite(a) THEN a[1] < 0
    ELSE b[1] > 0

RGt(a, b) == RLt(b, a)

REq(a, b) == ~IsNaN(a) /\ ~IsNaN(b) /\ a = b

RLe(a, b) == RLt(a, b) \/ REq(a, b)

RGe(a, b) == RLe(b, a)

RMin(a, b) == IF RLt(b, a) THEN b ELSE a

RMax(a, b) == IF RGt(b, a) THEN b ELSE a

(***************************************************************************)
(* Fixed-point prices                                                      *)
(***************************************************************************)
\* A price counts 1/Scale units; square roots are taken to 1/SqrtScale.
Scale == 10000

SqrtScale == 1000

\* a / b for b > 0, rounded to the nearest whole unit.
RoundDiv(a, b) == (2 * a + b) \div (2 * b)

FxToR(x) == Norm(x, Scale)

RECURSIVE ISqrtSearch(_, _, _)
ISqrtSearch(x, lo, hi) ==
    IF lo >= hi THEN lo
    ELSE LET mid == (lo + hi + 1) \div 2
         IN  IF mid * mid <= x THEN ISqrtSearch(x, mid, hi)
             ELSE ISqrtSearch(x, lo, mid - 1)

\* floor(sqrt(x)) for 0 <= x < 2^31
ISqrt(x) == ISqrtSearch(x, 0, 46340)

\* math.Sqrt of a rational: NaN below zero, else the root to 1/SqrtScale.
RSqrt(a) ==
    IF IsNaN(a) \/ (IsFinite(a) /\ a[1] < 0) THEN NaN
    ELSE IF ~IsFinite(a) THEN a
    ELSE LET m == SqrtScale * SqrtScale
             scaled == a[1] * (m \div a[2]) + (a[1] * (m % a[2])) \div a[2]
         IN  Norm(ISqrt(scaled), SqrtScale)

\* math.Round(x*m)/m: to the nearest 1/m, halves away from zero.
RRound(a, m) ==
    IF ~IsFinite(a) THEN a
    ELSE LET q == (2 * Abs(a[1]) * m + a[2]) \div (2 * a[2])
         IN  Norm(Sgn(a[1]) * q, m)

(***************************************************************************)
(* utils/predict.go                                                        *)
(***************************************************************************)
\* Loops over a range are evaluated by halving the range, which keeps the
\* order of the elements.
TheOne(S) == CHOOSE x \in S : TRUE

RECURSIVE SumRange(_, _, _)
SumRange(data, lo, hi) ==
    IF lo > hi THEN 0
    ELSE IF lo = hi THEN data[lo]
    ELSE LET mid == (lo + hi) \div 2
         IN  SumRange(data, lo, mid) + SumRange(data, mid + 1, hi)

\* predict.go:119-128
SMA(data) ==
    IF Len(data) = 0 THEN 0
    ELSE RoundDiv(SumRange(data, 1, Len(data)), Len(data))

\* predict.go:138, one pass of the loop body
EMAStep(ema, x, period) == RoundDiv(2 * (x - ema), period + 1) + ema

\* predict.go:137-139, the value of ema after the loop has consumed the
\* 1-based positions lo .. hi, starting from ema
RECURSIVE EMALoop(_, _, _, _, _)
EMALoop(data, period, ema, lo, hi) ==
    IF lo > hi THEN ema
    ELSE IF lo = hi THEN EMAStep(ema, data[lo], period)
    ELSE LET mid == (lo + hi) \div 2
         IN  TheOne({EMALoop(data, period, e, mid + 1, hi) :
                        e \in {EMALoop(data, period, ema, lo, mid)}})

\* predict.go:130-141
EMASeedFirst(data, period) ==
    IF Len(data) < period THEN SMA(data)
    ELSE EMALoop(data, period, data[1], 2, Len(data))

EMA(data, period) ==
    IF Len(data) < period THEN SMA(data)
    ELSE EMALoop(data, period, SMA(SubSeq(data, 1, period)), period + 1, Len(data))

\* predict.go:145-156, the entries lo .. hi of the MACD-line series: one
\* entry per prefix of closes
MACDLineWhole(closes, shortPeriod, longPeriod, lo, hi) ==
    [i \in 1 .. (hi - lo + 1) |-> EMA(closes, shortPeriod) - EMA(closes, longPeriod)]

RECURSIVE MACDLine(_, _, _, _, _)
MACDLine(closes, shortPeriod, longPeriod, lo, hi) ==
    IF lo > hi THEN <<>>
    ELSE IF lo = hi
    THEN <<EMA(SubSeq(closes, 1, lo), shortPeriod) - EMA(SubSeq(closes, 1, lo), longPeriod)>>
    ELSE LET mid == (lo + hi) \div 2
         IN  MACDLine(closes, shortPeriod, longPeriod, lo, mid)
                \o MACDLine(closes, shortPeriod, longPeriod, mid + 1, hi)

\* predict.go:144-161.  macdLine[len(macdLine)-1] is index -1 on an empty
\* series: the runtime panics.
MACD(closes, shortPeriod, longPeriod, signalPeriod) ==
    LET macdLine == MACDLine(closes, shortPeriod, longPeriod, 1, Len(closes))
    IN  IF Len(macdLine) = 0
        THEN [status |-> "panic", val |-> <<>>]
        ELSE LET signalLine == EMA(macdLine, signalPeriod)
                 last == macdLine[Len(macdLine)]
             IN  [status |-> "ok", val |-> <<last, signalLine, last - signalLine>>]

\* predict.go:29-38 and 42-52: the gain (up = TRUE) or loss of the step
\* into the 1-based position i.
Delta(closes, i) == FxToR(closes[i] - closes[i - 1])

GainAbsolute(closes, i) ==
    IF RGt(Delta(closes, i), RInt(0)) THEN Delta(closes, i) ELSE RNeg(Delta(closes, i))

Gain(closes, i) ==
    IF RGt(Delta(closes, i), RInt(0)) THEN Delta(closes, i) ELSE RInt(0)

LossSigned(closes, i) ==
    IF RGt(Delta(closes, i), RInt(0)) THEN RInt(0) ELSE Delta(closes, i)

Loss(closes, i) ==
    IF RGt(Delta(closes, i), RInt(0)) THEN RInt(0) ELSE RNeg(Delta(closes, i))

\* predict.go:29-38, the gains and the losses of the steps into lo .. hi
RECURSIVE GainSum(_, _, _)
GainSum(closes, lo, hi) ==
    IF lo > hi THEN RInt(0)
    ELSE IF lo = hi THEN Gain(closes, lo)
    ELSE LET mid == (lo + hi) \div 2
         IN  RAdd(GainSum(closes, lo, mid), GainSum(closes, mid + 1, hi))

RECURSIVE LossSum(_, _, _)
LossSum(closes, lo, hi) ==
    IF lo > hi THEN RInt(0)
    ELSE IF lo = hi THEN Loss(closes, lo)
    ELSE LET mid == (lo + hi) \div 2
         IN  RAdd(LossSum(closes, lo, mid), LossSum(closes, mid + 1, hi))

\* predict.go:42-52, Wilder smoothing up to the 1-based position k
RECURSIVE AvgGain(_, _, _)
AvgGain(closes, period, k) ==
    IF k <= period + 1 THEN RDiv(GainSum(closes, 2, period + 1), RInt(period))
    ELSE RDiv(RAdd(RMul(AvgGain(closes, period, k - 1), RInt(period - 1)),
                   Gain(closes, k)),
              RInt(period))

RECURSIVE AvgLoss(_, _, _)
AvgLoss(closes, period, k) ==
    IF k <= period + 1 THEN RDiv(LossSum(closes, 2, period + 1), RInt(period))
    ELSE RDiv(RAdd(RMul(AvgLoss(closes, period, k - 1), RInt(period - 1)),
                   Loss(closes, k)),
              RInt(period))

\* predict.go:54-62
RSIValue(avgGain, avgLoss) ==
    IF REq(avgLoss, RInt(0)) THEN RInt(100)
    ELSE LET rs  == RDiv(avgGain, avgLoss)
             rsi == RSub(RInt(100), RDiv(RInt(100), RAdd(RInt(1), rs)))
         IN  IF IsNaN(rsi) THEN RInt(0) ELSE rsi

\* predict.go:24-63
CalculateRSIZeroNoError(closes, period) ==
    IF Len(closes) < period + 1
    THEN [status |-> "ok", val |-> RInt(0)]
    ELSE [status |-> "ok",
          val |-> RSIValue(AvgGain(closes, period, Len(closes)),
                           AvgLoss(closes, period, Len(closes)))]

CalculateRSI(closes, period) ==
    IF Len(closes) < period + 1
    THEN [status |-> "error", val |-> RInt(0)]
    ELSE [status |-> "ok",
          val |-> RSIValue(AvgGain(closes, period, Len(closes)),
                           AvgLoss(closes, period, Len(closes)))]

\* predict.go:74, the points CalculateStochRSI leaves out of its RSI series
SkipsRSIHundred(r) == r.status # "ok" \/ REq(r.val, RInt(100))

SkipsRSI(r) == r.status # "ok" \/ REq(r.val, RInt(0))

\* predict.go:71-78, the part of the RSI series that comes from the windows
\* ending at the 1-based positions lo .. hi
RSISeriesAll(closes, rsiPeriod, lo, hi) ==
    [i \in 1 .. (hi - lo + 1) |->
        CalculateRSI(SubSeq(closes, lo + i - 1 - rsiPeriod, lo + i - 1), rsiPeriod).val]

RECURSIVE RSISeries(_, _, _, _)
RSISeries(closes, rsiPeriod, lo, hi) ==
    IF lo > hi THEN <<>>
    ELSE IF lo = hi
    THEN LET r == CalculateRSI(SubSeq(closes, lo - rsiPeriod, lo), rsiPeriod)
         IN  IF SkipsRSI(r) THEN <<>> ELSE <<r.val>>
    ELSE LET mid == (lo + hi) \div 2
         IN  RSISeries(closes, rsiPeriod, lo, mid)
                \o RSISeries(closes, rsiPeriod, mid + 1, hi)

RECURSIVE MinOf(_, _, _)
MinOf(s, from, to) ==
    IF from = to THEN s[from]
    ELSE LET mid == (from + to) \div 2
         IN  RMin(MinOf(s, from, mid), MinOf(s, mid + 1, to))

RECURSIVE MaxOf(_, _, _)
MaxOf(s, from, to) ==
    IF from = to THEN s[from]
    ELSE LET mid == (from + to) \div 2
         IN  RMax(MaxOf(s, from, mid), MaxOf(s, mid + 1, to))

Clamp01(v) == RMax(RInt(0), RMin(RInt(1), v))

\* predict.go:86-102, the raw value of the window ending at position i
RawStoch(rsiSeries, stochPeriod, i) ==
    LET minRSI == MinOf(rsiSeries, i - stochPeriod + 1, i)
        maxRSI == MaxOf(rsiSeries, i - stochPeriod + 1, i)
    IN  IF REq(maxRSI, minRSI) THEN RInt(0)
        ELSE Clamp01(RDiv(RSub(rsiSeries[i], minRSI), RSub(maxRSI, minRSI)))

\* predict.go:84-103
StochRSISeries(rsiSeries, stochPeriod) ==
    [j \in 1 .. (Len(rsiSeries) - stochPeriod + 1) |->
        RawStoch(rsiSeries, stochPeriod, j + stochPeriod - 1)]

\* predict.go:105
smoothPeriod == 3

\* predict.go:105-116
SmoothedSum(series) ==
    LET n == Len(series)
    IN  IF n < smoothPeriod THEN series[n]
        ELSE RAdd(RAdd(series[n - 2], series[n - 1]), series[n])

Smoothed(series) ==
    LET n == Len(series)
    IN  IF n < smoothPeriod THEN series[n]
        ELSE Clamp01(RDiv(RAdd(RAdd(series[n - 2], series[n - 1]), series[n]),
                          RInt(smoothPeriod)))

\* predict.go:66-117
CalculateStochRSI(closes, rsiPeriod, stochPeriod) ==
    IF Len(closes) < rsiPeriod + stochPeriod
    THEN [status |-> "error", val |-> RInt(0)]
    ELSE LET rsiSeries == RSISeries(closes, rsiPeriod, rsiPeriod + 1, Len(closes))
         IN  IF Len(rsiSeries) < stochPeriod
             THEN [status |-> "error", val |-> RInt(0)]
             ELSE [status |-> "ok",
                   val |-> Smoothed(StochRSISeries(rsiSeries, stochPeriod))]

RECURSIVE SumSqTo(_, _, _)
SumSqTo(closes, from, to) ==
    IF from > to THEN RInt(0)
    ELSE IF from = to THEN RMul(FxToR(closes[to]), FxToR(closes[to]))
    ELSE LET mid == (from + to) \div 2
         IN  RAdd(SumSqTo(closes, from, mid), SumSqTo(closes, mid + 1, to))

RECURSIVE SumRTo(_, _, _)
SumRTo(closes, from, to) ==
    IF from > to THEN RInt(0)
    ELSE IF from = to THEN FxToR(closes[to])
    ELSE LET mid == (from + to) \div 2
         IN  RAdd(SumRTo(closes, from, mid), SumRTo(closes, mid + 1, to))

\* predict.go:169-178 for the 1-based position i > period: the window is
\* the `period` closes before position i.
BandAtClamped(closes, period, i) ==
    LET sum    == SumRTo(closes, i - period, i - 1)
        sumSq  == SumSqTo(closes, i - period, i - 1)
        mean   == RDiv(sum, RInt(period))
        stddev == RSqrt(RSub(RDiv(sumSq, RInt(period)), RMul(mean, mean)))
        up     == RAdd(mean, RMul(RInt(2), stddev))
        lo     == RSub(mean, RMul(RInt(2), stddev))
    IN  [upper |-> up, lower |-> lo,
         percentB |-> Clamp01(RDiv(RSub(FxToR(closes[i]), lo), RSub(up, lo)))]

BandAt(closes, period, i) ==
    LET sum    == SumRTo(closes, i - period, i - 1)
        sumSq  == SumSqTo(closes, i - period, i - 1)
        mean   == RDiv(sum, RInt(period))
        stddev == RSqrt(RSub(RDiv(sumSq, RInt(period)), RMul(mean, mean)))
        up     == RAdd(mean, RMul(RInt(2), stddev))
        lo     == RSub(mean, RMul(RInt(2), stddev))
    IN  [upper |-> up, lower |-> lo,
         percentB |-> RDiv(RSub(FxToR(closes[i]), lo), RSub(up, lo))]

\* predict.go:164-181
BollingerBands(closes, period) ==
    [i \in 1 .. Len(closes) |->
        IF i <= period
        THEN [upper |-> RInt(0), lower |-> RInt(0), percentB |-> RInt(0)]
        ELSE BandAt(closes, period, i)]

(***************************************************************************)
(* State                                                                   *)
(***************************************************************************)
VARIABLES
    \* CalculateDCA: arguments, position in the function, locals, results
    currentPrice, currentQty, buyPrice,
    \* (resultsNil: the returned slice is nil; results: its rows otherwise)
    dcaPc, lossPct, idx, targetLoss, targetAvg, q2, results, resultsNil, dcaErr

dcaVars == <<currentPrice, currentQty, buyPrice, dcaPc, lossPct, idx,
             targetLoss, targetAvg, q2, results, resultsNil, dcaErr>>

VARIABLES
    \* PredictNextPrice: argument, position in the function, the indicators
    \* computed so far, locals, returned record (<<>> is a nil pointer), error
    closes, prPc, computed, shortEMA, longEMA, macdLine, signalLine, hist,
    stochRSI, bollPctB, result, prErr

prVars == <<closes, prPc, computed, shortEMA, longEMA, macdLine, signalLine,
            hist, stochRSI, bollPctB, result, prErr>>

VARIABLES
    \* a call of one library function on closes: the function, its period
    \* arguments, what it returned
    libFn, libPeriods, libRet

libVars == <<libFn, libPeriods, libRet>>

VARIABLES
    \* main.go:30-33, the settings read from the environment
    percentThreshold, percentThresholdBuy, percentThresholdSell, minQuantity,
    \* autoTrade: argument, position in the function, locals, the value of
    \* checkSignal (Nil before it returns), the returned message as the list
    \* of its parts, the orders handed to PlaceOrder
    balance, atPc, price, change, prediction, msg, orders,
    \* which lookups failed; whether the daily candle gave the day's high
    priceErr, signalErr, dayHighKnown

tradeVars == <<percentThreshold, percentThresholdBuy, percentThresholdSell,
               minQuantity, balance, atPc, price, change, prediction, msg,
               orders, priceErr, signalErr, dayHighKnown>>

VARIABLES
    \* the executions of cronJob, one per goroutine: the position of each in
    \* the function, what started it, the balance it read; the orders placed
    \* by all of them; the number of executions started so far
    runPc, runBy, runBalance, runOrders, started

cronVars == <<runPc, runBy, runBalance, runOrders, started>>

VARIABLES
    \* computeAverageAveragePrice: the trades fetched, in chronological order
    \* (account.go:86-88); the position in the function; the index of the
    \* next trade; the locals totalBuyQty and totalBuyValue; the locals
    \* currentQty and currentCost (runningQty, runningCost) and their values
    \* before the trade processed last; what the function returned; the
    \* balance GetAccountBalances appended (Nil: none)
    trades, avgPc, tradeIdx, totalBuyQty, totalBuyValue, runningQty,
    runningCost, prevQty, prevCost, avgRet, reported

acctVars == <<trades, avgPc, tradeIdx, totalBuyQty, totalBuyValue, runningQty,
              runningCost, prevQty, prevCost, avgRet, reported>>

botVars == <<tradeVars, cronVars, acctVars>>

vars == <<dcaVars, prVars, libVars, botVars>>

\* No library function has been called.
LibIdle ==
    /\ libFn = "none"
    /\ libPeriods = <<>>
    /\ libRet = [status |-> "none", val |-> <<>>]

\* main.go:30-33, the defaults of the settings
DefaultPercentThreshold == 10

DefaultPercentThresholdBuy == 10

DefaultPercentThresholdSell == 15

DefaultMinQuantity == 5

\* autoTrade is not under way.
TradeIdle ==
    /\ percentThreshold = DefaultPercentThreshold
    /\ percentThresholdBuy = DefaultPercentThresholdBuy
    /\ percentThresholdSell = DefaultPercentThresholdSell
    /\ minQuantity = DefaultMinQuantity
    /\ balance = Nil
    /\ atPc = "idle"
    /\ price = Nil /\ change = Nil
    /\ prediction = Nil
    /\ msg = <<>>
    /\ orders = <<>>
    /\ priceErr = FALSE /\ signalErr = FALSE /\ dayHighKnown = FALSE

\* Executions of cronJob run in up to MaxRuns goroutines at a time.
MaxRuns == 2

Runs == 1 .. MaxRuns

\* No execution of cronJob has been started.
CronIdle ==
    /\ runPc = [r \in Runs |-> "idle"]
    /\ runBy = [r \in Runs |-> "none"]
    /\ runBalance = [r \in Runs |-> Nil]
    /\ runOrders = <<>>
    /\ started = 0

\* computeAverageAveragePrice is not under way.
AcctIdle ==
    /\ trades = <<>>
    /\ avgPc = "idle"
    /\ tradeIdx = 0
    /\ totalBuyQty = RInt(0) /\ totalBuyValue = RInt(0)
    /\ runningQty = RInt(0) /\ runningCost = RInt(0)
    /\ prevQty = RInt(0) /\ prevCost = RInt(0)
    /\ avgRet = Nil
    /\ reported = Nil

BotIdle == TradeIdle /\ CronIdle /\ AcctIdle

(***************************************************************************)
(* utils/dca.go                                                            *)
(***************************************************************************)
\* Largest argument value tried for CalculateDCA; arguments are the whole
\* numbers from -1 (an invalid argument) up to it.
MaxDCAArg == 5

DCAArgs == {RInt(i) : i \in -1 .. MaxDCAArg}

targetLossReductions == <<RInt(30), RInt(50), RInt(80), RInt(0)>>

\* dca.go:20 and dca.go:23, the two argument checks.
DCAInvalidNoQty(cp, q, bp) == RLe(cp, RInt(0)) \/ RLe(bp, RInt(0))

DCAInvalid(cp, q, bp) ==
    RLe(cp, RInt(0)) \/ RLe(q, RInt(0)) \/ RLe(bp, RInt(0))

\* dca.go:30
LossPct(cp, bp) == RMul(RSub(RInt(1), RDiv(cp, bp)), RInt(100))

\* dca.go:31
NoLossStrict(l) == RLt(l, RInt(0))

NoLoss(l) == RLe(l, RInt(0))

\* dca.go:39
TargetLoss(l, reduction) ==
    RMul(l, RSub(RInt(1), RDiv(reduction, RInt(100))))

\* dca.go:40
TargetAvg(cp, tl) == RDiv(cp, RSub(RInt(1), RDiv(tl, RInt(100))))

\* dca.go:43
BuyQtySwapped(cp, q, bp, ta) ==
    RDiv(RMul(RSub(ta, bp), q), RSub(bp, ta))

BuyQty(cp, q, bp, ta) ==
    RDiv(RMul(RSub(ta, bp), q), RSub(cp, ta))

\* dca.go:48-59, the row built for one target once q2 > 0.
DCARow(cp, q, bp, qty2) ==
    LET totalQty   == RAdd(q, qty2)
        newAvg     == RDiv(RAdd(RMul(bp, q), RMul(cp, qty2)), totalQty)
        usdtSpent  == RMul(qty2, cp)
        newLossPct == RMul(RSub(RInt(1), RDiv(cp, newAvg)), RInt(100))
    IN  [TargetAvg |-> newAvg, BuyQty |-> qty2, NewTotal |-> totalQty,
         USDTSpent |-> usdtSpent, DropPct |-> newLossPct]

\* dca.go:53, results = append(results, row)
AppendFront(rs, row) == <<row>> \o rs

AppendRow(rs, row) == Append(rs, row)

\* No call of PredictNextPrice is under way.
PredictIdle ==
    /\ closes = <<>>
    /\ prPc = "idle"
    /\ computed = {}
    /\ shortEMA = 0 /\ longEMA = 0
    /\ macdLine = 0 /\ signalLine = 0 /\ hist = 0
    /\ stochRSI = RInt(0) /\ bollPctB = RInt(0)
    /\ result = <<>>
    /\ prErr = FALSE

InitDCA ==
    /\ PredictIdle
    /\ LibIdle
    /\ BotIdle
    /\ currentPrice \in DCAArgs
    /\ currentQty \in DCAArgs
    /\ buyPrice \in DCAArgs
    /\ dcaPc = "start"
    /\ lossPct = Nil
    /\ idx = 0
    /\ targetLoss = Nil
    /\ targetAvg = Nil
    /\ q2 = Nil
    /\ results = <<>>
    /\ resultsNil = TRUE
    /\ dcaErr = FALSE

\* dca.go:20-33
DCAValidate ==
    /\ dcaPc = "start"
    /\ UNCHANGED <<currentPrice, currentQty, buyPrice, idx, targetLoss, targetAvg, q2>>
    /\ IF DCAInvalid(currentPrice, currentQty, buyPrice)
       THEN /\ dcaPc' = "done"
            /\ dcaErr' = TRUE
            /\ UNCHANGED <<lossPct, results, resultsNil>>
       ELSE /\ lossPct' = LossPct(currentPrice, buyPrice)
            /\ results' = <<>>
            /\ resultsNil' = FALSE
            /\ dcaErr' = FALSE
            /\ dcaPc' = IF NoLoss(lossPct') THEN "done" ELSE "loop"
    /\ UNCHANGED <<prVars, libVars, botVars>>

\* dca.go:38-60, one iteration of the loop over targetLossReductions
DCAIterate ==
    /\ dcaPc = "loop"
    /\ idx < Len(targetLossReductions)
    /\ idx' = idx + 1
    /\ targetLoss' = TargetLoss(lossPct, targetLossReductions[idx'])
    /\ targetAvg' = TargetAvg(currentPrice, targetLoss')
    /\ q2' = BuyQty(currentPrice, currentQty, buyPrice, targetAvg')
    /\ results' = IF RLe(q2', RInt(0))
                  THEN results
                  ELSE AppendRow(results, DCARow(currentPrice, currentQty, buyPrice, q2'))
    /\ UNCHANGED <<currentPrice, currentQty, buyPrice, dcaPc, lossPct,
                   resultsNil, dcaErr>>
    /\ UNCHANGED <<prVars, libVars, botVars>>

\* dca.go:62
DCAReturn ==
    /\ dcaPc = "loop"
    /\ idx = Len(targetLossReductions)
    /\ dcaPc' = "done"
    /\ UNCHANGED <<currentPrice, currentQty, buyPrice, lossPct, idx,
                   targetLoss, targetAvg, q2, results, resultsNil, dcaErr>>
    /\ UNCHANGED <<prVars, libVars, botVars>>

NextDCA == DCAValidate \/ DCAIterate \/ DCAReturn

SpecDCA == InitDCA /\ [][NextDCA]_vars

(***************************************************************************)
(* PredictNextPrice, predict.go:184-226                                    *)
(***************************************************************************)
\* predict.go:185
MinCloses == 60

\* predict.go:192-201, the periods PredictNextPrice passes
ShortEMAPeriod == 7

LongEMAPeriod == 20

MACDShortPeriod == 12

MACDLongPeriod == 26

MACDSignalPeriod == 9

RSIPeriod == 14

StochPeriod == 14

BollingerPeriod == 20

\* predict.go:209 and 212, the thresholds 0.2 and 0.8
Oversold == <<1, 5>>

Overbought == <<4, 5>>

\* predict.go:208-214
ClassifyLooseBuy(sEMA, lEMA, macd, sig, stoch, pctB) ==
    LET buy  == sEMA > lEMA /\ macd > sig /\ RLt(stoch, Oversold)
        sell == sEMA < lEMA /\ macd < sig /\ RGt(stoch, Overbought)
                    /\ RGt(pctB, Overbought)
    IN  IF sell THEN "SELL" ELSE IF buy THEN "BUY" ELSE "HOLD"

Classify(sEMA, lEMA, macd, sig, stoch, pctB) ==
    LET buy  == sEMA > lEMA /\ macd > sig /\ RLt(stoch, Oversold)
                    /\ RLt(pctB, Oversold)
        sell == sEMA < lEMA /\ macd < sig /\ RGt(stoch, Overbought)
                    /\ RGt(pctB, Overbought)
    IN  IF sell THEN "SELL" ELSE IF buy THEN "BUY" ELSE "HOLD"

\* predict.go:204
Momentum(cur, prev) == RMul(RDiv(RSub(cur, prev), prev), RInt(100))

\* predict.go:205
PredictedFullMomentum(cur, prev) ==
    RMul(cur, RAdd(RInt(1), RDiv(Momentum(cur, prev), RInt(100))))

Predicted(cur, prev) ==
    RMul(cur, RAdd(RInt(1), RDiv(Momentum(cur, prev), RInt(200))))

\* predict.go:206
ChangePct(cur, prev) ==
    RMul(RDiv(RSub(Predicted(cur, prev), cur), cur), RInt(100))

\* predict.go:216-225, the returned record
PredictResult(cur, prev, sig, macd, sigLine, histogram, stoch, pctB) ==
    LET predicted == Predicted(cur, prev)
        changePct == ChangePct(cur, prev)
    IN  [NextPrice |-> RRound(predicted, 100),
         ChangePct |-> RRound(changePct, 100),
         Signal    |-> sig,
         MACD      |-> RRound(FxToR(macd), 1000),
         SignalMA  |-> RRound(FxToR(sigLine), 1000),
         Histogram |-> RRound(FxToR(histogram), 1000),
         RSI       |-> RInt(0),
         StochRSI  |-> RRound(stoch, 1000),
         BollPctB  |-> RRound(pctB, 1000),
         DayHigh   |-> RInt(0),
         DayLow    |-> RInt(0)]

\* predict.go:185-187
PredictStart ==
    /\ prPc = "start"
    /\ IF Len(closes) < MinCloses
       THEN /\ prPc' = "done"
            /\ prErr' = TRUE
       ELSE /\ prPc' = "ema"
            /\ prErr' = FALSE
    /\ UNCHANGED <<closes, computed, shortEMA, longEMA, macdLine, signalLine,
                   hist, stochRSI, bollPctB, result>>
    /\ UNCHANGED <<dcaVars, libVars, botVars>>

\* predict.go:192-193
PredictEMA ==
    /\ prPc = "ema"
    /\ shortEMA' = EMA(closes, ShortEMAPeriod)
    /\ longEMA' = EMA(closes, LongEMAPeriod)
    /\ computed' = computed \cup {"EMA"}
    /\ prPc' = "macd"
    /\ UNCHANGED <<closes, macdLine, signalLine, hist, stochRSI, bollPctB,
                   result, prErr>>
    /\ UNCHANGED <<dcaVars, libVars, botVars>>

\* predict.go:194
PredictMACD ==
    /\ prPc = "macd"
    /\ LET m == MACD(closes, MACDShortPeriod, MACDLongPeriod, MACDSignalPeriod)
       IN  /\ macdLine' = m.val[1]
           /\ signalLine' = m.val[2]
           /\ hist' = m.val[3]
    /\ computed' = computed \cup {"MACD"}
    /\ prPc' = "stochrsi"
    /\ UNCHANGED <<closes, shortEMA, longEMA, stochRSI, bollPctB, result, prErr>>
    /\ UNCHANGED <<dcaVars, libVars, botVars>>

\* predict.go:195-198
PredictStochRSI ==
    /\ prPc = "stochrsi"
    /\ LET r == CalculateStochRSI(closes, RSIPeriod, StochPeriod)
       IN  /\ stochRSI' = r.val
           /\ prErr' = (r.status # "ok")
           /\ prPc' = IF r.status # "ok" THEN "done" ELSE "bollinger"
    /\ computed' = computed \cup {"StochRSI"}
    /\ UNCHANGED <<closes, shortEMA, longEMA, macdLine, signalLine, hist,
                   bollPctB, result>>
    /\ UNCHANGED <<dcaVars, libVars, botVars>>

\* predict.go:200-202
PredictBollinger ==
    /\ prPc = "bollinger"
    /\ bollPctB' = BollingerBands(closes, BollingerPeriod)[Len(closes)].percentB
    /\ computed' = computed \cup {"BollingerBands"}
    /\ prPc' = "classify"
    /\ UNCHANGED <<closes, shortEMA, longEMA, macdLine, signalLine, hist,
                   stochRSI, result, prErr>>
    /\ UNCHANGED <<dcaVars, libVars, botVars>>

\* predict.go:189-190 and 204-225
PredictReturn ==
    /\ prPc = "classify"
    /\ LET prCurrentPrice == FxToR(closes[Len(closes)])
           prevPrice      == FxToR(closes[Len(closes) - 1])
           sig == Classify(shortEMA, longEMA, macdLine, signalLine, stochRSI, bollPctB)
       IN  result' = <<PredictResult(prCurrentPrice, prevPrice, sig, macdLine,
                                     signalLine, hist, stochRSI, bollPctB)>>
    /\ prPc' = "done"
    /\ UNCHANGED <<closes, computed, shortEMA, longEMA, macdLine, signalLine,
                   hist, stochRSI, bollPctB, prErr>>
    /\ UNCHANGED <<dcaVars, libVars, botVars>>

(***************************************************************************)
(* The price series PredictNextPrice is called with: whole-number closes   *)
(* of at least MinPrice, whose steps alternate between a and b and end in  *)
(* tail[1] steps of tail[2] followed by tail[3] steps of tail[4].          *)
(***************************************************************************)
\* Steps a and b range over -MaxStep .. MaxStep.
MaxStep == 1

\* Series lengths range over MinCloses - 1 .. MinCloses + MaxExtraLen.
MaxExtraLen == 1

Tails == {<<0, 0, 0, 0>>,      \* no tail
          <<3, 2, 1, -8>>,     \* a rise, then a sharp drop
          <<3, 2, 1, -4>>,     \* a rise, then a smaller drop
          <<2, -5, 3, 4>>,     \* a fall, then a rebound
          <<3, 1, 2, 3>>,      \* an accelerating rise
          <<20, 3, 10, 1>>,    \* a fast rise that slows down
          <<7, 1, 7, 2>>}      \* a rise over the last 14 steps only

Min2(x, y) == IF x <= y THEN x ELSE y

Max2(x, y) == IF x >= y THEN x ELSE y

\* the sum of the first j steps of the series
Rise(n, a, b, tail, j) ==
    LET m  == n - 1 - tail[1] - tail[3]
        j1 == Min2(j, m)
        j2 == Min2(Max2(j - m, 0), tail[1])
        j3 == Max2(j - m - tail[1], 0)
    IN  a * ((j1 + 1) \div 2) + b * (j1 \div 2) + tail[2] * j2 + tail[4] * j3

MinPrice == 1

Series(n, a, b, tail) ==
    LET rises == {Rise(n, a, b, tail, j) : j \in 0 .. n - 1}
        lo    == CHOOSE x \in rises : \A y \in rises : x <= y
    IN  [i \in 1 .. n |-> (Rise(n, a, b, tail, i - 1) - lo + MinPrice) * Scale]

\* PredictNextPrice has been called and has not run yet; CalculateDCA is not
\* under way.
PredictCalled ==
    /\ prPc = "start"
    /\ computed = {}
    /\ shortEMA = 0 /\ longEMA = 0
    /\ macdLine = 0 /\ signalLine = 0 /\ hist = 0
    /\ stochRSI = RInt(0) /\ bollPctB = RInt(0)
    /\ result = <<>>
    /\ prErr = FALSE
    \* CalculateDCA is not under way
    /\ currentPrice = RInt(0) /\ currentQty = RInt(0) /\ buyPrice = RInt(0)
    /\ dcaPc = "idle"
    /\ lossPct = Nil /\ idx = 0
    /\ targetLoss = Nil /\ targetAvg = Nil /\ q2 = Nil
    /\ results = <<>> /\ resultsNil = TRUE /\ dcaErr = FALSE

InitPredict ==
    /\ \E n \in (MinCloses - 1) .. (MinCloses + MaxExtraLen),
          a \in -MaxStep .. MaxStep, b \in -MaxStep .. MaxStep, tail \in Tails :
          closes = Series(n, a, b, tail)
    /\ PredictCalled
    /\ LibIdle
    /\ BotIdle

NextPredict ==
    \/ PredictStart
    \/ PredictEMA
    \/ PredictMACD
    \/ PredictStochRSI
    \/ PredictBollinger
    \/ PredictReturn

SpecPredict == InitPredict /\ [][NextPredict]_vars

(***************************************************************************)
(* The library functions of predict.go called on their own, on short       *)
(* series (the empty one included) and with small periods                  *)
(***************************************************************************)
\* Series have up to MaxLibLen closes, each a whole price 1 .. MaxLibPrice.
MaxLibLen == 4

MaxLibPrice == 3

\* Periods range over 1 .. MaxLibPeriod.
MaxLibPeriod == 2

LibSeries ==
    UNION {[1 .. n -> {p * Scale : p \in 1 .. MaxLibPrice}] : n \in 0 .. MaxLibLen}

LibPeriods == 1 .. MaxLibPeriod

Returned(v) == [status |-> "ok", val |-> v]

CallSMA ==
    /\ libFn = "none"
    /\ libFn' = "SMA"
    /\ libPeriods' = <<>>
    /\ libRet' = Returned(<<SMA(closes)>>)
    /\ UNCHANGED <<dcaVars, prVars, botVars>>

CallEMA ==
    /\ libFn = "none"
    /\ libFn' = "EMA"
    /\ \E period \in LibPeriods :
          /\ libPeriods' = <<period>>
          /\ libRet' = Returned(<<EMA(closes, period)>>)
    /\ UNCHANGED <<dcaVars, prVars, botVars>>

CallRSI ==
    /\ libFn = "none"
    /\ libFn' = "CalculateRSI"
    /\ \E period \in LibPeriods :
          /\ libPeriods' = <<period>>
          /\ libRet' = CalculateRSI(closes, period)
    /\ UNCHANGED <<dcaVars, prVars, botVars>>

CallStochRSI ==
    /\ libFn = "none"
    /\ libFn' = "CalculateStochRSI"
    /\ \E rsiPeriod \in LibPeriods, stochPeriod \in LibPeriods :
          /\ libPeriods' = <<rsiPeriod, stochPeriod>>
          /\ libRet' = CalculateStochRSI(closes, rsiPeriod, stochPeriod)
    /\ UNCHANGED <<dcaVars, prVars, botVars>>

CallMACD ==
    /\ libFn = "none"
    /\ libFn' = "MACD"
    /\ \E shortPeriod \in LibPeriods, longPeriod \in LibPeriods,
          signalPeriod \in LibPeriods :
          /\ libPeriods' = <<shortPeriod, longPeriod, signalPeriod>>
          /\ libRet' = MACD(closes, shortPeriod, longPeriod, signalPeriod)
    /\ UNCHANGED <<dcaVars, prVars, botVars>>

CallBollinger ==
    /\ libFn = "none"
    /\ libFn' = "BollingerBands"
    /\ \E period \in LibPeriods :
          /\ libPeriods' = <<period>>
          /\ libRet' = Returned(BollingerBands(closes, period))
    /\ UNCHANGED <<dcaVars, prVars, botVars>>

InitLib ==
    /\ closes \in LibSeries
    /\ PredictCalled
    /\ LibIdle
    /\ BotIdle

NextLib ==
    \/ CallSMA
    \/ CallEMA
    \/ CallRSI
    \/ CallStochRSI
    \/ CallMACD
    \/ CallBollinger
    \/ PredictStart

SpecLib == InitLib /\ [][NextLib]_vars

(***************************************************************************)
(* main.go: one call of autoTrade (with the checkSignal it calls)          *)
(***************************************************************************)
\* main.go:88
Change(p, averagePrice) ==
    RMul(RDiv(RSub(p, averagePrice), averagePrice), RInt(100))

\* main.go:100
InsignificantChange(c) ==
    RGt(c, RNeg(RInt(percentThreshold))) /\ RLt(c, RInt(percentThreshold))

\* predict.go:216-225 as main.go:57 receives it: PredictNextPrice fills in
\* the signal and leaves DayHigh and DayLow at 0
Prediction(signal) ==
    [Signal |-> signal, DayHigh |-> RInt(0), DayLow |-> RInt(0)]

\* main.go:63-69
WithDayKlines(pred, fetch, high, low) ==
    IF fetch = "candle" THEN [pred EXCEPT !.DayHigh = high, !.DayLow = low]
    ELSE pred

SellGuardAnyQuantity(c, free, p, pred) ==
    /\ RGt(c, RInt(percentThresholdSell))
    /\ RGe(p, pred.DayHigh) \/ pred.Signal = "SELL"

\* main.go:138-139
SellGuard(c, free, p, pred) ==
    /\ RGt(c, RInt(percentThresholdSell)) /\ RGe(free, RInt(minQuantity))
    /\ RGe(p, pred.DayHigh) \/ pred.Signal = "SELL"

\* main.go:148
BuyGuard(c, pred) ==
    pred.Signal = "BUY" /\ RLe(c, RNeg(RInt(percentThresholdBuy)))

\* main.go:140, 149: the call of PlaceOrder
Order(side, quantity) == [side |-> side, quantity |-> quantity]

\* main.go:76-88
AutoTradeGetPrice(p, failed) ==
    /\ atPc = "start"
    /\ IF failed
       THEN /\ priceErr' = TRUE
            /\ atPc' = "done"
            /\ UNCHANGED <<price, change>>
       ELSE /\ price' = p
            /\ change' = Change(p, balance.AveragePrice)
            /\ atPc' = "threshold"
            /\ UNCHANGED priceErr
    /\ UNCHANGED <<percentThreshold, percentThresholdBuy, percentThresholdSell,
                   minQuantity, balance, prediction, msg, orders, signalErr,
                   dayHighKnown>>
    /\ UNCHANGED <<dcaVars, prVars, libVars, cronVars, acctVars>>

\* main.go:100-102
AutoTradeThreshold ==
    /\ atPc = "threshold"
    /\ atPc' = IF InsignificantChange(change) THEN "done" ELSE "signal"
    /\ UNCHANGED <<percentThreshold, percentThresholdBuy, percentThresholdSell,
                   minQuantity, balance, price, change, prediction, msg, orders,
                   priceErr, signalErr, dayHighKnown>>
    /\ UNCHANGED <<dcaVars, prVars, libVars, cronVars, acctVars>>

\* main.go:104-136 with checkSignal, main.go:40-72.  outcome is what the
\* klines fetch and PredictNextPrice come to, fetch what the daily-candle
\* fetch comes to.
AutoTradeCheckSignal(outcome, signal, fetch, high, low) ==
    /\ atPc = "signal"
    /\ IF outcome # "ok"
       THEN /\ signalErr' = TRUE
            /\ atPc' = "done"
            /\ UNCHANGED <<prediction, msg, dayHighKnown>>
       ELSE /\ prediction' = WithDayKlines(Prediction(signal), fetch, high, low)
            /\ dayHighKnown' = (fetch = "candle")
            /\ msg' = IF RLe(change, RNeg(RInt(percentThreshold)))
                      THEN <<"report", "dca">>
                      ELSE <<"report">>
            /\ atPc' = "sell"
            /\ UNCHANGED signalErr
    /\ UNCHANGED <<percentThreshold, percentThresholdBuy, percentThresholdSell,
                   minQuantity, balance, price, change, orders, priceErr>>
    /\ UNCHANGED <<dcaVars, prVars, libVars, cronVars, acctVars>>

\* main.go:138-146
AutoTradeSell(failed) ==
    /\ atPc = "sell"
    /\ IF SellGuard(change, balance.Free, price, prediction)
       THEN /\ orders' = Append(orders, Order("SELL", minQuantity))
            /\ IF failed
               THEN atPc' = "done" /\ UNCHANGED msg
               ELSE atPc' = "buy" /\ msg' = Append(msg, "sold")
       ELSE /\ atPc' = "buy"
            /\ UNCHANGED <<orders, msg>>
    /\ UNCHANGED <<percentThreshold, percentThresholdBuy, percentThresholdSell,
                   minQuantity, balance, price, change, prediction, priceErr,
                   signalErr, dayHighKnown>>
    /\ UNCHANGED <<dcaVars, prVars, libVars, cronVars, acctVars>>

\* main.go:148-156
AutoTradeBuy(failed) ==
    /\ atPc = "buy"
    /\ IF BuyGuard(change, prediction)
       THEN /\ orders' = Append(orders, Order("BUY", minQuantity))
            /\ IF failed
               THEN UNCHANGED msg
               ELSE msg' = Append(msg, "bought")
       ELSE UNCHANGED <<orders, msg>>
    /\ atPc' = "done"
    /\ UNCHANGED <<percentThreshold, percentThresholdBuy, percentThresholdSell,
                   minQuantity, balance, price, change, prediction, priceErr,
                   signalErr, dayHighKnown>>
    /\ UNCHANGED <<dcaVars, prVars, libVars, cronVars, acctVars>>

\* The position was bought at EntryPrice; prices move by up to MaxMove
\* around it, the free quantity by up to MaxSlack around minQuantity.
EntryPrice == 20

MaxMove == 4

MaxSlack == 1

TradePrices == {RInt(p) : p \in (EntryPrice - MaxMove) .. (EntryPrice + MaxMove)}

\* a day's high below and one above every price
DayHighs == {RInt(EntryPrice - MaxMove), RInt(EntryPrice + MaxMove + 1)}

\* a setting keeps its default or is overridden by 0 or by a negative value
Settings(default) == {default, 0, -default}

SignalLookups == {"klines failed", "too few klines", "prediction failed", "ok"}

Signals == {"BUY", "SELL", "HOLD"}

DayFetches == {"failed", "no candle", "candle"}

\* cronJob (main.go:170) calls autoTrade only with AveragePrice > 0
InitTrade ==
    /\ PredictIdle
    /\ LibIdle
    /\ currentPrice = RInt(0) /\ currentQty = RInt(0) /\ buyPrice = RInt(0)
    /\ dcaPc = "idle"
    /\ lossPct = Nil /\ idx = 0
    /\ targetLoss = Nil /\ targetAvg = Nil /\ q2 = Nil
    /\ results = <<>> /\ resultsNil = TRUE /\ dcaErr = FALSE
    /\ percentThreshold \in Settings(DefaultPercentThreshold)
    /\ percentThresholdBuy \in Settings(DefaultPercentThresholdBuy)
    /\ percentThresholdSell \in Settings(DefaultPercentThresholdSell)
    /\ minQuantity = DefaultMinQuantity
    /\ \E free \in (DefaultMinQuantity - MaxSlack) .. (DefaultMinQuantity + MaxSlack) :
          balance = [Free |-> RInt(free), AveragePrice |-> RInt(EntryPrice)]
    /\ atPc = "start"
    /\ price = Nil /\ change = Nil
    /\ prediction = Nil
    /\ msg = <<>>
    /\ orders = <<>>
    /\ priceErr = FALSE /\ signalErr = FALSE /\ dayHighKnown = FALSE
    /\ CronIdle
    /\ AcctIdle

NextTrade ==
    \/ \E p \in TradePrices, failed \in BOOLEAN : AutoTradeGetPrice(p, failed)
    \/ AutoTradeThreshold
    \/ \E outcome \in SignalLookups, signal \in Signals, fetch \in DayFetches,
          high \in DayHighs :
          AutoTradeCheckSignal(outcome, signal, fetch, high, RInt(1))
    \/ \E failed \in BOOLEAN : AutoTradeSell(failed)
    \/ \E failed \in BOOLEAN : AutoTradeBuy(failed)

SpecTrade == InitTrade /\ [][NextTrade]_vars

(***************************************************************************)
(* main.go: the executions of cronJob.  The scheduler started at           *)
(* main.go:353 runs each firing of a job in a goroutine of its own, and    *)
(* the handler of the bot runs in the bot's goroutine; main.go holds no    *)
(* lock and asks the scheduler for no skipping or queueing of firings.     *)
(***************************************************************************)
\* The model follows MaxStarts executions in all.
MaxStarts == 3

\* main.go:341: the 5-minute schedule fires and cronJob starts in a new
\* goroutine (r is a free slot of the model)
ScheduleFires(r) ==
    /\ runPc[r] = "idle"
    /\ started < MaxStarts
    /\ runPc' = [runPc EXCEPT ![r] = "balances"]
    /\ runBy' = [runBy EXCEPT ![r] = "schedule"]
    /\ runBalance' = [runBalance EXCEPT ![r] = Nil]
    /\ started' = started + 1
    /\ UNCHANGED runOrders
    /\ UNCHANGED <<dcaVars, prVars, libVars, tradeVars, acctVars>>

\* main.go:258-261: the handler receives /run and calls cronJob
RunCommand(r) ==
    /\ runPc[r] = "idle"
    /\ started < MaxStarts
    /\ runPc' = [runPc EXCEPT ![r] = "balances"]
    /\ runBy' = [runBy EXCEPT ![r] = "command"]
    /\ runBalance' = [runBalance EXCEPT ![r] = Nil]
    /\ started' = started + 1
    /\ UNCHANGED runOrders
    /\ UNCHANGED <<dcaVars, prVars, libVars, tradeVars, acctVars>>

\* main.go:160-173: GetAccountBalances; the balance read is the position as
\* the orders placed so far have left it (seen: their number)
CronGetBalances(r, free, failed) ==
    /\ runPc[r] = "balances"
    /\ IF failed
       THEN /\ runPc' = [runPc EXCEPT ![r] = "done"]
            /\ UNCHANGED runBalance
       ELSE /\ runPc' = [runPc EXCEPT ![r] = "trade"]
            /\ runBalance' = [runBalance EXCEPT ![r] =
                  [Free |-> free, AveragePrice |-> RInt(EntryPrice),
                   seen |-> Len(runOrders)]]
    /\ UNCHANGED <<runBy, runOrders, started>>
    /\ UNCHANGED <<dcaVars, prVars, libVars, tradeVars, acctVars>>

\* main.go:174 with main.go:74-157: autoTrade on the balance read, when the
\* lookups succeed and PlaceOrder succeeds
CronAutoTrade(r, p, signal) ==
    /\ runPc[r] = "trade"
    /\ LET c    == Change(p, runBalance[r].AveragePrice)
           pred == Prediction(signal)
           sell == IF ~InsignificantChange(c)
                      /\ SellGuard(c, runBalance[r].Free, p, pred)
                   THEN <<[run |-> r, seen |-> runBalance[r].seen,
                           order |-> Order("SELL", minQuantity)]>>
                   ELSE <<>>
           buy  == IF ~InsignificantChange(c) /\ BuyGuard(c, pred)
                   THEN <<[run |-> r, seen |-> runBalance[r].seen,
                           order |-> Order("BUY", minQuantity)]>>
                   ELSE <<>>
       IN  runOrders' = runOrders \o sell \o buy
    /\ runPc' = [runPc EXCEPT ![r] = "done"]
    /\ UNCHANGED <<runBy, runBalance, started>>
    /\ UNCHANGED <<dcaVars, prVars, libVars, tradeVars, acctVars>>

\* main.go:182: cronJob returns and its goroutine ends
CronReturn(r) ==
    /\ runPc[r] = "done"
    /\ runPc' = [runPc EXCEPT ![r] = "idle"]
    /\ runBy' = [runBy EXCEPT ![r] = "none"]
    /\ runBalance' = [runBalance EXCEPT ![r] = Nil]
    /\ UNCHANGED <<runOrders, started>>
    /\ UNCHANGED <<dcaVars, prVars, libVars, tradeVars, acctVars>>

InitCron ==
    /\ PredictIdle
    /\ LibIdle
    /\ currentPrice = RInt(0) /\ currentQty = RInt(0) /\ buyPrice = RInt(0)
    /\ dcaPc = "idle"
    /\ lossPct = Nil /\ idx = 0
    /\ targetLoss = Nil /\ targetAvg = Nil /\ q2 = Nil
    /\ results = <<>> /\ resultsNil = TRUE /\ dcaErr = FALSE
    /\ TradeIdle
    /\ CronIdle
    /\ AcctIdle

NextCron ==
    \/ \E r \in Runs : ScheduleFires(r)
    \/ \E r \in Runs : RunCommand(r)
    \/ \E r \in Runs, failed \in BOOLEAN,
          free \in (DefaultMinQuantity - MaxSlack) .. (DefaultMinQuantity + MaxSlack) :
          CronGetBalances(r, RInt(free), failed)
    \/ \E r \in Runs, p \in TradePrices, signal \in Signals :
          CronAutoTrade(r, p, signal)
    \/ \E r \in Runs : CronReturn(r)

SpecCron == InitCron /\ [][NextCron]_vars

(***************************************************************************)
(* account.go: computeAverageAveragePrice and the balance that             *)
(* GetAccountBalances reports.  Here the sign of a difference is at stake, *)
(* so the float64 operations are modelled with their rounding: binary      *)
(* floating point, round to nearest even, with a significand of FloatBits  *)
(* bits instead of 53 (and no exponent limits).                            *)
(***************************************************************************)
FloatBits == 7

RECURSIVE Pow2(_)
Pow2(k) == IF k = 0 THEN 1 ELSE 2 * Pow2(k - 1)

\* a * 2^(-e)
Scaled(a, e) ==
    IF e >= 0 THEN RDiv(a, RInt(Pow2(e))) ELSE RMul(a, RInt(Pow2(-e)))

\* the exponent e with 2^(FloatBits-1) <= a * 2^(-e) < 2^FloatBits, a > 0
RECURSIVE FlExponent(_, _)
FlExponent(a, e) ==
    IF RGe(Scaled(a, e), RInt(Pow2(FloatBits))) THEN FlExponent(a, e + 1)
    ELSE IF RLt(Scaled(a, e), RInt(Pow2(FloatBits - 1))) THEN FlExponent(a, e - 1)
    ELSE e

\* the integer nearest to x >= 0, the even one on a tie
RoundHalfEven(x) ==
    LET q   == x[1] \div x[2]
        rem == x[1] - q * x[2]
    IN  IF 2 * rem > x[2] THEN q + 1
        ELSE IF 2 * rem = x[2] THEN q + (q % 2)
        ELSE q

\* the floating-point number nearest to r
Fl(r) ==
    IF ~IsFinite(r) \/ r[1] = 0 THEN r
    ELSE LET a == <<Abs(r[1]), r[2]>>
             e == FlExponent(a, 0)
             v == Scaled(RInt(RoundHalfEven(Scaled(a, e))), -e)
         IN  IF r[1] < 0 THEN RNeg(v) ELSE v

FDiv(a, b) == Fl(RDiv(a, b))

FSub(a, b) == Fl(RSub(a, b))

FAdd(a, b) == Fl(RAdd(a, b))

\* x + y*z as the compiler may emit it: the product rounded and then the
\* sum, or fused into one operation with a single rounding
FMulAdd(x, y, z, fused) ==
    IF fused THEN Fl(RAdd(x, RMul(y, z))) ELSE Fl(RAdd(x, Fl(RMul(y, z))))

\* account.go:106
Reduce(qty, cur) == RMin(qty, cur)

\* what computeAverageAveragePrice returns
AvgReturned(averagePrice, costPrice, err) ==
    [averagePrice |-> averagePrice, costPrice |-> costPrice, err |-> err]

\* account.go:77-83 (the trades arrive in the order account.go:86-88 give
\* them)
AvgFetch(failed) ==
    /\ avgPc = "start"
    /\ IF failed \/ Len(trades) = 0
       THEN /\ avgRet' = AvgReturned(RInt(0), RInt(0), TRUE)
            /\ avgPc' = "returned"
            /\ UNCHANGED <<trades, tradeIdx>>
       ELSE /\ avgPc' = "loop"
            /\ tradeIdx' = 1
            /\ UNCHANGED <<trades, avgRet>>
    /\ UNCHANGED <<totalBuyQty, totalBuyValue, runningQty, runningCost,
                   prevQty, prevCost, reported>>
    /\ UNCHANGED <<dcaVars, prVars, libVars, tradeVars, cronVars>>

\* account.go:94-111, one iteration of the loop
AvgTrade(fused) ==
    /\ avgPc = "loop"
    /\ tradeIdx <= Len(trades)
    /\ LET t == trades[tradeIdx]
       IN  IF t.IsBuyer
           THEN /\ totalBuyQty' = FAdd(totalBuyQty, t.Qty)
                /\ totalBuyValue' = FMulAdd(totalBuyValue, t.Price, t.Qty, fused)
                /\ runningCost' = FMulAdd(runningCost, t.Price, t.Qty, fused)
                /\ runningQty' = FAdd(runningQty, t.Qty)
           ELSE /\ IF RGt(runningQty, RInt(0))
                   THEN LET avgCost == FDiv(runningCost, runningQty)
                            reduce  == Reduce(t.Qty, runningQty)
                        IN  /\ runningCost' =
                                  FMulAdd(runningCost, RNeg(avgCost), reduce, fused)
                            /\ runningQty' = FSub(runningQty, reduce)
                   ELSE UNCHANGED <<runningQty, runningCost>>
                /\ UNCHANGED <<totalBuyQty, totalBuyValue>>
    /\ prevQty' = runningQty
    /\ prevCost' = runningCost
    /\ tradeIdx' = tradeIdx + 1
    /\ UNCHANGED <<trades, avgPc, avgRet, reported>>
    /\ UNCHANGED <<dcaVars, prVars, libVars, tradeVars, cronVars>>

\* account.go:113-123
AvgReturn ==
    /\ avgPc = "loop"
    /\ tradeIdx > Len(trades)
    /\ avgRet' =
          IF totalBuyQty = RInt(0) THEN AvgReturned(RInt(0), RInt(0), TRUE)
          ELSE IF runningQty = RInt(0)
               THEN AvgReturned(FDiv(totalBuyValue, totalBuyQty), RInt(0), TRUE)
          ELSE AvgReturned(FDiv(totalBuyValue, totalBuyQty),
                           FDiv(runningCost, runningQty), FALSE)
    /\ avgPc' = "returned"
    /\ UNCHANGED <<trades, tradeIdx, totalBuyQty, totalBuyValue, runningQty,
                   runningCost, prevQty, prevCost, reported>>
    /\ UNCHANGED <<dcaVars, prVars, libVars, tradeVars, cronVars>>

\* account.go:55-69: the error is printed and the balance appended
AccountReported(total) ==
    /\ avgPc = "returned"
    /\ reported' = [Total        |-> total,
                    AveragePrice |-> avgRet.averagePrice,
                    CostPrice    |-> avgRet.costPrice,
                    TotalUSDT    |-> Fl(RMul(total, avgRet.averagePrice))]
    /\ avgPc' = "reported"
    /\ UNCHANGED <<trades, tradeIdx, totalBuyQty, totalBuyValue, runningQty,
                   runningCost, prevQty, prevCost, avgRet>>
    /\ UNCHANGED <<dcaVars, prVars, libVars, tradeVars, cronVars>>

\* Histories hold up to MaxTrades trades; a buy is of 1 .. MaxTradeQty
\* units at a whole price 1 .. MaxTradePrice, a sell of 1 .. MaxTradeQty
\* units or of 2 * MaxTradeQty units, more than two buys add (its price is
\* not read).
MaxTrades == 3

MaxTradePrice == 4

MaxTradeQty == 4

Buys ==
    {[IsBuyer |-> TRUE, Price |-> RInt(p), Qty |-> RInt(q)] :
        p \in 1 .. MaxTradePrice, q \in 1 .. MaxTradeQty}

Sells ==
    {[IsBuyer |-> FALSE, Price |-> RInt(1), Qty |-> RInt(q)] :
        q \in (1 .. MaxTradeQty) \cup {2 * MaxTradeQty}}

Histories == UNION {[1 .. n -> Buys \cup Sells] : n \in 0 .. MaxTrades}

InitAcct ==
    /\ PredictIdle
    /\ LibIdle
    /\ currentPrice = RInt(0) /\ currentQty = RInt(0) /\ buyPrice = RInt(0)
    /\ dcaPc = "idle"
    /\ lossPct = Nil /\ idx = 0
    /\ targetLoss = Nil /\ targetAvg = Nil /\ q2 = Nil
    /\ results = <<>> /\ resultsNil = TRUE /\ dcaErr = FALSE
    /\ TradeIdle
    /\ CronIdle
    /\ trades \in Histories
    /\ avgPc = "start"
    /\ tradeIdx = 0
    /\ totalBuyQty = RInt(0) /\ totalBuyValue = RInt(0)
    /\ runningQty = RInt(0) /\ runningCost = RInt(0)
    /\ prevQty = RInt(0) /\ prevCost = RInt(0)
    /\ avgRet = Nil
    /\ reported = Nil

NextAcct ==
    \/ \E failed \in BOOLEAN : AvgFetch(failed)
    \/ \E fused \in BOOLEAN : AvgTrade(fused)
    \/ AvgReturn
    \/ \E total \in {1, MaxTradeQty} : AccountReported(RInt(total))

SpecAcct == InitAcct /\ [][NextAcct]_vars

(***************************************************************************)
(* Properties of CalculateDCA, checked under SpecDCA                       *)
(***************************************************************************)
Positive(x) == x[2] > 0 /\ x[1] > 0

ValidPosition == Positive(currentPrice) /\ Positive(currentQty) /\ Positive(buyPrice)

AtLoss == ValidPosition /\ currentPrice[1] * buyPrice[2] < buyPrice[1] * currentPrice[2]

\* The loss percentage and the target losses written out directly.
ExpectedLossPct == RDiv(RMul(RSub(buyPrice, currentPrice), RInt(100)), buyPrice)

ExpectedTargetLoss(t) ==
    RDiv(RMul(ExpectedLossPct, RSub(RInt(100), targetLossReductions[t])), RInt(100))

\* C1: CalculateDCA returns an error and no plan, computing nothing, when
\* currentPrice <= 0 or currentQty <= 0 or buyPrice <= 0; when all three are
\* strictly positive it returns no error.
C1_InvalidInputRejected ==
    /\ ~ValidPosition =>
          /\ lossPct = Nil /\ idx = 0 /\ q2 = Nil /\ resultsNil /\ results = <<>>
          /\ dcaPc = "done" => dcaErr
    /\ ValidPosition => ~dcaErr

C1_Witness ==
    /\ dcaPc = "done" /\ dcaErr /\ resultsNil
    /\ currentQty = RInt(0) /\ Positive(currentPrice) /\ Positive(buyPrice)

\* C2: a valid position with currentPrice >= buyPrice gets an empty, non-nil
\* plan and a nil error.
C2_NoLossEmptyPlan ==
    (ValidPosition /\ ~AtLoss) =>
        /\ idx = 0
        /\ dcaPc = "done" => (results = <<>> /\ ~resultsNil /\ ~dcaErr)

C2_Witness ==
    /\ dcaPc = "done" /\ results = <<>> /\ ~resultsNil /\ ~dcaErr
    /\ currentPrice = buyPrice /\ ValidPosition

\* C3: for a position at a loss and each of the targets 30, 50 and 80,
\* the buy quantity q2 is strictly positive, a row is emitted, the row's
\* recomputed weighted average equals targetAvg = currentPrice/(1 - targetLoss/100)
\* and its DropPct equals targetLoss = lossPct*(1 - r/100).
C3_TargetRowReachesTarget ==
    (AtLoss /\ idx \in 1 .. 3) =>
        /\ REq(targetLoss, ExpectedTargetLoss(idx))
        /\ REq(targetAvg,
               RDiv(RMul(currentPrice, RInt(100)), RSub(RInt(100), targetLoss)))
        /\ RGt(q2, RInt(0))
        /\ Len(results) = idx
        /\ REq(results[idx].BuyQty, q2)
        /\ REq(RDiv(RAdd(RMul(buyPrice, currentQty), RMul(currentPrice, q2)),
                    RAdd(currentQty, q2)),
               targetAvg)
        /\ REq(results[idx].TargetAvg, targetAvg)
        /\ REq(results[idx].DropPct, targetLoss)

C3_Witness ==
    /\ currentPrice = RInt(4) /\ buyPrice = RInt(5) /\ currentQty = RInt(1)
    /\ idx = 2 /\ Len(results) = 2
    /\ targetLoss = RInt(10) /\ targetAvg = <<40, 9>>
    /\ results[2].TargetAvg = <<40, 9>> /\ results[2].DropPct = RInt(10)

\* C4: for a position at a loss the plan has a row for target 0 that brings
\* the position to break-even: its new average price equals the current
\* price and its resulting loss percentage is 0.
C4_BreakEvenRow ==
    (dcaPc = "done" /\ AtLoss) =>
        \E i \in 1 .. Len(results) :
            /\ REq(results[i].TargetAvg, currentPrice)
            /\ REq(results[i].DropPct, RInt(0))

\* C5: the rows follow the order of the targets [30, 50, 80, 0]; a target
\* whose q2 <= 0 contributes no row, no target contributes two rows, and the
\* plan never has more than 4 rows.
RECURSIVE RowsOfTargets(_)
RowsOfTargets(k) ==
    IF k = 0 THEN <<>>
    ELSE LET ta  == TargetAvg(currentPrice, TargetLoss(lossPct, targetLossReductions[k]))
             qty == BuyQty(currentPrice, currentQty, buyPrice, ta)
         IN  IF RLe(qty, RInt(0))
             THEN RowsOfTargets(k - 1)
             ELSE Append(RowsOfTargets(k - 1),
                         DCARow(currentPrice, currentQty, buyPrice, qty))

\* The targets a row can belong to: those whose target loss is the row's DropPct.
TargetsOfRow(row) ==
    {t \in 1 .. Len(targetLossReductions) : REq(row.DropPct, ExpectedTargetLoss(t))}

C5_RowsInTargetOrder ==
    ~resultsNil =>
        /\ Len(results) <= idx
        /\ idx <= 4
        /\ results = RowsOfTargets(idx)
        /\ \A i \in 1 .. Len(results) :
              /\ TargetsOfRow(results[i]) # {}
              /\ \A t \in TargetsOfRow(results[i]) : t <= idx
              /\ RGt(results[i].BuyQty, RInt(0))
        /\ \A i, j \in 1 .. Len(results) :
              i < j => \A s \in TargetsOfRow(results[i]), t \in TargetsOfRow(results[j]) : s < t

C5_Witness ==
    /\ dcaPc = "done" /\ idx = 4 /\ Len(results) = 3
    /\ REq(q2, RInt(0))
    /\ TargetsOfRow(results[1]) = {1}
    /\ TargetsOfRow(results[2]) = {2}
    /\ TargetsOfRow(results[3]) = {3}

(***************************************************************************)
(* Properties of PredictNextPrice, checked under SpecPredict               *)
(***************************************************************************)
HasResult == prPc = "done" /\ result # <<>>

BuyCondition ==
    /\ shortEMA > longEMA
    /\ macdLine > signalLine
    /\ RLt(stochRSI, <<1, 5>>)
    /\ RLt(bollPctB, <<1, 5>>)

SellCondition ==
    /\ shortEMA < longEMA
    /\ macdLine < signalLine
    /\ RGt(stochRSI, <<4, 5>>)
    /\ RGt(bollPctB, <<4, 5>>)

\* C6: the returned Signal is BUY exactly when shortEMA > longEMA and
\* macdLine > signalLine and StochRSI < 0.2 and %B < 0.2, SELL exactly when
\* shortEMA < longEMA and macdLine < signalLine and StochRSI > 0.8 and
\* %B > 0.8, and HOLD in every other case; the BUY and the SELL conditions
\* never hold together.
C6_SignalClassification ==
    /\ ~(BuyCondition /\ SellCondition)
    /\ HasResult =>
          /\ (result[1].Signal = "BUY") <=> BuyCondition
          /\ (result[1].Signal = "SELL") <=> SellCondition
          /\ (result[1].Signal = "HOLD") <=> (~BuyCondition /\ ~SellCondition)

C6_Witness == HasResult /\ BuyCondition /\ result[1].Signal = "BUY"

AllPositive == \A i \in 1 .. Len(closes) : closes[i] > 0

\* C7: for every series of at least 60 strictly positive closes,
\* PredictNextPrice returns a result and no error.
C7_LengthIsTheOnlyGate ==
    (prPc = "done" /\ Len(closes) >= 60 /\ AllPositive) =>
        (~prErr /\ result # <<>>)

StrictlyAscending == \A i \in 2 .. Len(closes) : closes[i] > closes[i - 1]

\* C10: for a 60-point strictly ascending series PredictNextPrice returns a
\* result whose Signal is BUY or HOLD, never SELL.
C10_AscendingNeverSell ==
    (prPc = "done" /\ Len(closes) = 60 /\ StrictlyAscending) =>
        /\ ~prErr
        /\ result # <<>>
        /\ result[1].Signal \in {"BUY", "HOLD"}

C10_Witness ==
    /\ HasResult /\ Len(closes) = 60 /\ StrictlyAscending
    /\ result[1].Signal = "HOLD"

(***************************************************************************)
(* Properties of the library functions, checked under SpecLib              *)
(***************************************************************************)
LengthError == [status |-> "error", val |-> RInt(0)]

\* C8: each length guard returns an error and no result, and nothing is
\* computed before it: CalculateRSI when len(closes) < period+1,
\* CalculateStochRSI when len(closes) < rsiPeriod+stochPeriod, and
\* PredictNextPrice when len(closes) < 60.
C8_LengthGuards ==
    /\ (libFn = "CalculateRSI" /\ Len(closes) < libPeriods[1] + 1) =>
          libRet = LengthError
    /\ (libFn = "CalculateStochRSI" /\ Len(closes) < libPeriods[1] + libPeriods[2]) =>
          libRet = LengthError
    /\ (prPc = "done" /\ Len(closes) < 60) =>
          (prErr /\ result = <<>> /\ computed = {})

C8_Witness ==
    /\ libFn = "CalculateRSI" /\ Len(closes) < libPeriods[1] + 1
    /\ libRet.status = "error"
    /\ prPc = "done" /\ prErr

\* C9: every library function returns a result or an error value and never
\* aborts the process, for every series (the empty one included) and every
\* strictly positive period.
C9_NeverAborts == libRet.status \in {"none", "ok", "error"}

RSIReturned == libFn = "CalculateRSI" /\ libRet.status = "ok"

StrictlyDescending == \A i \in 2 .. Len(closes) : closes[i] < closes[i - 1]

\* C11: CalculateRSI returns exactly 100 on a series whose deltas are all
\* strictly positive and exactly 0 on a series whose deltas are all strictly
\* negative, for every period p >= 1 and every series of length >= p+1.
C11_MonotoneRSI ==
    RSIReturned =>
        /\ StrictlyAscending => libRet.val = RInt(100)
        /\ StrictlyDescending => libRet.val = RInt(0)

C11_Witness ==
    /\ RSIReturned /\ StrictlyDescending
    /\ Len(closes) > libPeriods[1] + 1
    /\ libRet.val = RInt(0)

\* C12: whenever CalculateRSI returns without error its value lies in the
\* closed range [0, 100].
C12_RSIRange ==
    RSIReturned => (RGe(libRet.val, RInt(0)) /\ RLe(libRet.val, RInt(100)))

C12_Witness ==
    /\ RSIReturned
    /\ RGt(libRet.val, RInt(0)) /\ RLt(libRet.val, RInt(100))

InUnit(v) == RGe(v, RInt(0)) /\ RLe(v, RInt(1))

\* the number of raw StochRSI points behind the value PredictNextPrice got
RawPoints ==
    Len(RSISeries(closes, RSIPeriod, RSIPeriod + 1, Len(closes))) - StochPeriod + 1

\* C13: whenever CalculateStochRSI returns without error its value lies in
\* [0, 1], on the unsmoothed path (fewer than 3 raw points) and on the
\* smoothed path.
C13_StochRSIRange ==
    /\ ("StochRSI" \in computed /\ ~prErr) => InUnit(stochRSI)
    /\ (libFn = "CalculateStochRSI" /\ libRet.status = "ok") => InUnit(libRet.val)

C13_Witness ==
    /\ "StochRSI" \in computed /\ ~prErr
    /\ RawPoints < smoothPeriod
    /\ RGt(stochRSI, RInt(0))

\* the RSI of the latest window of RSIPeriod + 1 closes
LatestRSI ==
    CalculateRSI(SubSeq(closes, Len(closes) - RSIPeriod, Len(closes)), RSIPeriod).val

\* C14: the RSI field of the record a successful PredictNextPrice returns
\* holds the latest RSI computed from the input closes.
C14_RSIReported ==
    HasResult => result[1].RSI = RRound(LatestRSI, 1000)

\* The recurrence ema := (v - ema)*k + ema with k = 2/(period+1), seeded with
\* the SMA of the first `period` closes and applied up to position k.
RECURSIVE EMARecurrence(_, _)
EMARecurrence(period, k) ==
    IF k <= period THEN SMA(SubSeq(closes, 1, period))
    ELSE LET ema == EMARecurrence(period, k - 1)
         IN  RoundDiv(2 * (closes[k] - ema), period + 1) + ema

\* C15: EMA(values, period) is SMA(values) when len(values) < period (0 for
\* the empty series); otherwise it is the value of the recurrence seeded
\* with the SMA of the first `period` elements, so it is SMA(values) when
\* len(values) = period.
C15_EMADefinition ==
    libFn = "EMA" =>
        LET period == libPeriods[1]
            ema    == libRet.val[1]
        IN  /\ libRet.status = "ok"
            /\ Len(closes) < period => ema = SMA(closes)
            /\ Len(closes) = 0 => ema = 0
            /\ Len(closes) = period => ema = SMA(closes)
            /\ Len(closes) >= period => ema = EMARecurrence(period, Len(closes))

C15_Witness ==
    /\ libFn = "EMA" /\ Len(closes) > libPeriods[1] + 1
    /\ libRet.val[1] # SMA(closes)
    /\ libRet.val[1] # closes[Len(closes)]

\* entry i of the MACD-line series: the difference of the two EMAs of the
\* prefix of i closes
MACDEntry(shortPeriod, longPeriod, i) ==
    EMA(SubSeq(closes, 1, i), shortPeriod) - EMA(SubSeq(closes, 1, i), longPeriod)

\* C16: on a non-empty series MACD returns (m, s, h) where m is the last
\* entry of the MACD-line series (one entry per prefix of closes), s is the
\* EMA of the whole series of entries over the signal period and h = m - s;
\* every entry whose prefix is shorter than both periods is 0.
C16_MACDDefinition ==
    (libFn = "MACD" /\ Len(closes) > 0) =>
        LET shortPeriod == libPeriods[1]
            longPeriod  == libPeriods[2]
            entries == [i \in 1 .. Len(closes) |-> MACDEntry(shortPeriod, longPeriod, i)]
            m == libRet.val[1]
            sg == libRet.val[2]
            h == libRet.val[3]
        IN  /\ libRet.status = "ok"
            /\ m = entries[Len(closes)]
            /\ sg = EMA(entries, libPeriods[3])
            /\ h = m - sg
            /\ \A i \in 1 .. Len(closes) :
                  (i < shortPeriod /\ i < longPeriod) => entries[i] = 0

C16_Witness ==
    /\ libFn = "MACD" /\ libRet.status = "ok"
    /\ libPeriods[1] < libPeriods[2]
    /\ Len(closes) > libPeriods[2]
    /\ libRet.val[1] # 0 /\ libRet.val[3] # 0 /\ libRet.val[2] # 0

\* the bands BollingerBands computes for the last close
LastBand == BollingerBands(closes, BollingerPeriod)[Len(closes)]

LastClose == FxToR(closes[Len(closes)])

\* C17: %B is not clamped: when the final close is above the upper band of
\* the last index (band width non-zero) the last %B is above 1, when it is
\* below the lower band the last %B is below 0, and PredictNextPrice
\* reports this value (rounded to 3 decimals).
C17_PercentBUnclamped ==
    "BollingerBands" \in computed =>
        /\ (RGt(LastBand.upper, LastBand.lower) /\ RGt(LastClose, LastBand.upper)) =>
              RGt(bollPctB, RInt(1))
        /\ (RGt(LastBand.upper, LastBand.lower) /\ RLt(LastClose, LastBand.lower)) =>
              RLt(bollPctB, RInt(0))
        /\ HasResult => result[1].BollPctB = RRound(bollPctB, 1000)

C17_Witness ==
    /\ HasResult
    /\ RGt(LastBand.upper, LastBand.lower) /\ RGt(LastClose, LastBand.upper)
    /\ RGt(result[1].BollPctB, RInt(1))

PrevClose == FxToR(closes[Len(closes) - 1])

\* (last - prev)/prev * 100 over the two most recent closes
ExpectedMomentum ==
    RDiv(RMul(RSub(LastClose, PrevClose), RInt(100)), PrevClose)

ExpectedEstimate ==
    RMul(LastClose, RAdd(RInt(1), RDiv(ExpectedMomentum, RInt(200))))

\* C18: in a successful PredictNextPrice the estimate is
\* last*(1 + momentum/200) and the change percentage is
\* (predicted - last)/last*100, which equals momentum/2; before rounding the
\* estimate is above, equal to or below the last close exactly when the
\* last close is above, equal to or below the previous close.
C18_Extrapolation ==
    HasResult =>
        /\ Predicted(LastClose, PrevClose) = ExpectedEstimate
        /\ ChangePct(LastClose, PrevClose) = RDiv(ExpectedMomentum, RInt(2))
        /\ result[1].NextPrice = RRound(ExpectedEstimate, 100)
        /\ result[1].ChangePct = RRound(RDiv(ExpectedMomentum, RInt(2)), 100)
        /\ RGt(Predicted(LastClose, PrevClose), LastClose) <=> RGt(LastClose, PrevClose)
        /\ REq(Predicted(LastClose, PrevClose), LastClose) <=> REq(LastClose, PrevClose)
        /\ RLt(Predicted(LastClose, PrevClose), LastClose) <=> RLt(LastClose, PrevClose)

C18_Witness ==
    /\ HasResult /\ RLt(LastClose, PrevClose)
    /\ RLt(result[1].NextPrice, LastClose)
    /\ RLt(result[1].ChangePct, RInt(0))

\* Step 1: the RSI of each of the len(closes) - rsiPeriod trailing windows
\* of rsiPeriod + 1 closes, in chronological order, without the windows
\* whose RSI fails or is exactly 0.
Survivors(rsiPeriod) ==
    LET windowRSI == [w \in 1 .. (Len(closes) - rsiPeriod) |->
                         CalculateRSI(SubSeq(closes, w, w + rsiPeriod), rsiPeriod)]
        keep(r) == r.status = "ok" /\ r.val # RInt(0)
        kept == SelectSeq(windowRSI, keep)
    IN  [i \in 1 .. Len(kept) |-> kept[i].val]

\* Step 3: the raw value of the window of stochPeriod survivors ending at j.
RawValue(points, stochPeriod, j) ==
    LET window == {points[k] : k \in (j - stochPeriod + 1) .. j}
        min == CHOOSE x \in window : \A y \in window : RLe(x, y)
        max == CHOOSE x \in window : \A y \in window : RGe(x, y)
    IN  IF max = min THEN RInt(0)
        ELSE RDiv(RSub(points[j], min), RSub(max, min))

\* Step 4: the mean of the last three raw values, or the last raw value.
StepsValue(points, stochPeriod) ==
    LET n == Len(points)
    IN  IF n - stochPeriod + 1 < 3 THEN RawValue(points, stochPeriod, n)
        ELSE RDiv(RAdd(RAdd(RawValue(points, stochPeriod, n - 2),
                            RawValue(points, stochPeriod, n - 1)),
                       RawValue(points, stochPeriod, n)),
                  RInt(3))

FourSteps(rsiPeriod, stochPeriod, failed, value) ==
    LET points == Survivors(rsiPeriod)
    IN  /\ failed <=> Len(points) < stochPeriod
        /\ ~failed => value = StepsValue(points, stochPeriod)

\* C19: past its length guard CalculateStochRSI (1) builds its RSI series
\* from the trailing windows and omits every window whose RSI is 0 or
\* fails, (2) returns an error exactly when fewer than stochPeriod points
\* survive, (3) takes (latest - min)/(max - min) over each trailing window
\* of stochPeriod survivors, 0 when max = min, and (4) returns the mean of
\* the last three raw values, or the last one when fewer than three exist.
C19_StochRSISteps ==
    /\ "StochRSI" \in computed =>
          FourSteps(RSIPeriod, StochPeriod, prErr, stochRSI)
    /\ (libFn = "CalculateStochRSI"
            /\ Len(closes) >= libPeriods[1] + libPeriods[2]) =>
          FourSteps(libPeriods[1], libPeriods[2], libRet.status = "error", libRet.val)

C19_Witness ==
    /\ "StochRSI" \in computed /\ ~prErr
    /\ Len(Survivors(RSIPeriod)) < Len(closes) - RSIPeriod
    /\ RGt(stochRSI, RInt(0)) /\ RLt(stochRSI, RInt(1))

\* mean and population standard deviation bands over the `period` closes
\* ending at the 1-based position pos, close[pos] included
BandEndingAt(period, pos) ==
    LET mean   == RDiv(SumRTo(closes, pos - period + 1, pos), RInt(period))
        meanSq == RDiv(SumSqTo(closes, pos - period + 1, pos), RInt(period))
        stddev == RSqrt(RSub(meanSq, RMul(mean, mean)))
        up     == RAdd(mean, RMul(RInt(2), stddev))
        lo     == RSub(mean, RMul(RInt(2), stddev))
    IN  [upper |-> up, lower |-> lo,
         percentB |-> RDiv(RSub(FxToR(closes[pos]), lo), RSub(up, lo))]

ZeroBand == [upper |-> RInt(0), lower |-> RInt(0), percentB |-> RInt(0)]

\* C20: BollingerBands leaves upper, lower and %B at 0 for every index
\* i < period and, for every index i >= period, computes them from the mean
\* and the population standard deviation of the `period` closes ending at
\* index i, close[i] included.  (Index i is the 1-based position i + 1.)
C20_WindowIncludesClose ==
    libFn = "BollingerBands" =>
        \A pos \in 1 .. Len(closes) :
            libRet.val[pos] = IF pos <= libPeriods[1] THEN ZeroBand
                              ELSE BandEndingAt(libPeriods[1], pos)

\* C21: for every index i >= period BollingerBands divides by a non-zero
\* band width (upper[i] > lower[i]), also when all closes of the window are
\* equal, so the %B that PredictNextPrice reads for a series of at least
\* MinCloses positive closes is a defined (finite) number.
C21_BandWidthNonZero ==
    "BollingerBands" \in computed =>
        /\ \A pos \in (BollingerPeriod + 1) .. Len(closes) :
              LET band == BollingerBands(closes, BollingerPeriod)[pos]
              IN  RGt(band.upper, band.lower)
        /\ IsFinite(bollPctB)
        /\ HasResult => IsFinite(result[1].BollPctB)

OrdersOf(side) == {i \in 1 .. Len(orders) : orders[i].side = side}

\* the price lookup succeeded and the change is inside the threshold band
ChangeInsideBand ==
    /\ change # Nil
    /\ RGt(change, RInt(-percentThreshold))
    /\ RLt(change, RInt(percentThreshold))

PositiveThresholds ==
    percentThreshold > 0 /\ percentThresholdBuy > 0 /\ percentThresholdSell > 0

\* C22: in autoTrade no order is placed and no message is built when the
\* change is strictly inside the threshold band or when the price or the
\* signal lookup fails; a SELL order is placed only if
\* change > percentThresholdSell, Free >= minQuantity and (price >= DayHigh
\* or Signal = SELL); a BUY order only if Signal = BUY and
\* change <= -percentThresholdBuy; every order is for minQuantity; with
\* positive thresholds one call never places both a SELL and a BUY.
C22_OrdersBehindGuards ==
    /\ (ChangeInsideBand \/ priceErr \/ signalErr) => (orders = <<>> /\ msg = <<>>)
    /\ \A i \in OrdersOf("SELL") :
          /\ RGt(change, RInt(percentThresholdSell))
          /\ RGe(balance.Free, RInt(minQuantity))
          /\ RGe(price, prediction.DayHigh) \/ prediction.Signal = "SELL"
    /\ \A i \in OrdersOf("BUY") :
          /\ prediction.Signal = "BUY"
          /\ RLe(change, RInt(-percentThresholdBuy))
    /\ \A i \in 1 .. Len(orders) :
          /\ orders[i].side \in {"SELL", "BUY"}
          /\ orders[i].quantity = minQuantity
    /\ PositiveThresholds => (OrdersOf("SELL") = {} \/ OrdersOf("BUY") = {})
    /\ Cardinality(OrdersOf("SELL")) <= 1 /\ Cardinality(OrdersOf("BUY")) <= 1

\* a finished call with the default settings that sold, on the SELL signal
\* alone
C22_Witness ==
    /\ atPc = "done"
    /\ percentThreshold = DefaultPercentThreshold
    /\ percentThresholdBuy = DefaultPercentThresholdBuy
    /\ percentThresholdSell = DefaultPercentThresholdSell
    /\ orders = <<Order("SELL", minQuantity)>>
    /\ prediction.Signal = "SELL" /\ RLt(price, prediction.DayHigh)
    /\ msg = <<"report", "sold">>

\* C23: when the daily-candle fetch of checkSignal fails or returns no
\* candle, autoTrade places a SELL order only if the signal is SELL.
C23_UnknownDayHighNeverSells ==
    (prediction # Nil /\ ~dayHighKnown) =>
        (OrdersOf("SELL") # {} => prediction.Signal = "SELL")

InProgress == {r \in Runs : runPc[r] \in {"balances", "trade", "done"}}

\* two orders placed by different executions of cronJob for the same
\* position, each having read the balance before the other's order
DoubleOrder ==
    \E i \in 1 .. Len(runOrders), j \in 1 .. Len(runOrders) :
        /\ runOrders[i].run # runOrders[j].run
        /\ runOrders[i].seen = runOrders[j].seen

\* C24: at most one execution of cronJob is in progress at any time (the
\* 5-minute schedule, the /run command and a slow run never overlap), so
\* two runs never both read the same position and each place an order for
\* it.
C24_OneRunAtATime ==
    /\ Cardinality(InProgress) <= 1
    /\ ~DoubleOrder

\* the trade processed last, when there is one
LastTrade == trades[tradeIdx - 1]

Processed == avgPc \in {"loop", "returned", "reported"} /\ tradeIdx > 1

BuysUpTo(k) == {i \in 1 .. k : trades[i].IsBuyer}

RECURSIVE BuyValue(_)
BuyValue(k) ==
    IF k = 0 THEN RInt(0)
    ELSE IF trades[k].IsBuyer
         THEN RAdd(BuyValue(k - 1), RMul(trades[k].Price, trades[k].Qty))
         ELSE BuyValue(k - 1)

RECURSIVE BuyQuantity(_)
BuyQuantity(k) ==
    IF k = 0 THEN RInt(0)
    ELSE IF trades[k].IsBuyer THEN RAdd(BuyQuantity(k - 1), trades[k].Qty)
         ELSE BuyQuantity(k - 1)

\* the quantity-weighted mean price of all BUY trades, as a float
WeightedBuyMean == Fl(RDiv(BuyValue(Len(trades)), BuyQuantity(Len(trades))))

\* what rounding may add to or take from a cost: a few units in the last
\* place of the cost before the sell
RoundingSlack == RDiv(RMul(RInt(4), prevCost), RInt(Pow2(FloatBits)))

RAbs(a) == IF a[1] < 0 THEN RNeg(a) ELSE a

\* C25: in computeAverageAveragePrice, after any chronological sequence of
\* trades, the running quantity and the running cost are never negative; a
\* sell removes min(sellQty, runningQty) units at the current average cost,
\* so that (up to rounding) the cost per unit is unchanged by a sell; a sell
\* while the running quantity is 0 changes nothing; averagePrice is the
\* quantity-weighted mean of all BUY trades, unaffected by sells; and when
\* the running quantity ends at 0 the function returns that averagePrice
\* with an error, which GetAccountBalances ignores: it reports the balance
\* with that averagePrice.
C25_RunningPosition ==
    /\ RGe(runningQty, RInt(0)) /\ RGe(runningCost, RInt(0))
    /\ (Processed /\ ~LastTrade.IsBuyer) =>
          /\ runningQty = RSub(prevQty, RMin(LastTrade.Qty, prevQty))
          /\ RGt(prevQty, RInt(0)) =>
                RLe(RAbs(RSub(runningCost,
                              RMul(RDiv(prevCost, prevQty), runningQty))),
                    RoundingSlack)
          /\ prevQty = RInt(0) =>
                (runningQty = prevQty /\ runningCost = prevCost)
    /\ (avgPc \in {"returned", "reported"} /\ tradeIdx > Len(trades)
            /\ BuysUpTo(Len(trades)) # {}) =>
          /\ avgRet.averagePrice = WeightedBuyMean
          /\ runningQty = RInt(0) =>
                (avgRet.err /\ avgRet.costPrice = RInt(0))
    /\ reported # Nil => reported.AveragePrice = avgRet.averagePrice

====
